---- MODULE Spec2Model ----
(***************************************************************************)
(* Model of typed-web/valibot-form-data: the path-expression parser        *)
(* (stringToPathArray / parsePath), the nested-structure assembler         *)
(* (setPath) and the entry aggregator (formData).                          *)
(*                                                                         *)
(* A string is a sequence of one-character strings.  A path segment is a   *)
(* record: Name(text) for a JavaScript string key, Index(num) for a        *)
(* JavaScript number key.                                                  *)
(***************************************************************************)
EXTENDS Integers, Sequences, FiniteSets, TLC

VARIABLES
  path,         \* the path string of the current call
  pc,           \* the control position of the call
  currentPath,  \* parsePath: the remaining path of the innermost frame
  stack,        \* parsePath: the parsedKey of each frame awaiting its call
  ret,          \* parsePath: the value being returned
  result,       \* what stringToPathArray returned
  heap,         \* the objects: heap[a] is the object at address a
  before,       \* the heap as it was when the last setPath call began
  value,        \* the value argument of the last setPath call
  thrown,       \* the error the last setPath call threw, or "none"
  thrownAt,     \* the segment the message of that error names
  calls,        \* the number of setPath calls made
  source,       \* formData: the value given to the schema
  shape,        \* formData: Object.keys(shape), the declared keys in order
  data,         \* formData: the entries of the source, [...iterable]
  map,          \* formData: the grouped entries, in insertion order
  cursor        \* formData: the position of the running loop

parserVars == <<path, pc, currentPath, stack, ret, result>>
objectVars == <<heap, before, value, thrown, thrownAt, calls>>
formVars == <<source, shape, data, map, cursor>>
vars == <<path, pc, currentPath, stack, ret, result,
          heap, before, value, thrown, thrownAt, calls,
          source, shape, data, map, cursor>>

(***************************************************************************)
(* Bounds of the model.                                                    *)
(***************************************************************************)
MaxLen == 4

\* The characters input strings are drawn from: an ordinary name character,
\* two decimal digits, the three syntax characters, and a line terminator
\* (which the regular expressions' "." does not match).
Alphabet == {"a", "0", "1", ".", "[", "]", "\n"}

Strings(n) == UNION {[1..k -> Alphabet] : k \in 0..n}

(***************************************************************************)
(* Characters and strings.                                                 *)
(***************************************************************************)
\* "." in a JavaScript regular expression without the s flag matches any
\* character except the line terminators LF, CR, U+2028 and U+2029.
IsLineTerminator(c) == c \in {"\n", "\r"}

IsDigit(c) == c \in {"0", "1", "2", "3", "4", "5", "6", "7", "8", "9"}

DigitValue(c) ==
  CASE c = "0" -> 0 [] c = "1" -> 1 [] c = "2" -> 2 [] c = "3" -> 3
    [] c = "4" -> 4 [] c = "5" -> 5 [] c = "6" -> 6 [] c = "7" -> 7
    [] c = "8" -> 8 [] c = "9" -> 9

\* Variant: the class of the dot pattern matches every character.
IsNameChar_any(c) == TRUE

\* The characters the class [^\.\[\]] of DOT_NOTATION_REGEX matches: a
\* negated class matches line terminators too.
IsNameChar(c) == c \notin {".", "[", "]"}

Slice(s, from, to) == [i \in 1..(to - from + 1) |-> s[from + i - 1]]

Min(S) == CHOOSE x \in S : \A y \in S : x <= y
Max(S) == CHOOSE x \in S : \A y \in S : x >= y

NoMatch == [matched |-> FALSE, key |-> <<>>, rest |-> <<>>]

(***************************************************************************)
(* The three regular expressions.                                          *)
(***************************************************************************)
\* /^\[(.+?)\](.*)$/ : j is the position of the closing bracket.  The key
\* s[2..j-1] is one or more characters "." matches, the rest s[j+1..] is
\* zero or more of them up to the end of the input; the lazy quantifier
\* takes the least such j.
BracketEnds(s) ==
  {j \in 3..Len(s) :
     /\ s[j] = "]"
     /\ \A i \in 2..(j - 1) : ~IsLineTerminator(s[i])
     /\ \A i \in (j + 1)..Len(s) : ~IsLineTerminator(s[i])}

BRACKET_NOTATION_REGEX(s) ==
  IF Len(s) >= 1 /\ s[1] = "[" /\ BracketEnds(s) # {}
  THEN LET j == Min(BracketEnds(s))
       IN [matched |-> TRUE, key |-> Slice(s, 2, j - 1),
           rest |-> Slice(s, j + 1, Len(s))]
  ELSE NoMatch

\* (DotEnds_star is the variant whose key may be empty: "+" replaced by "*".)
\* /^\.?([^\.\[\]]+)(.*)$/ : the key is s[p..q] where p = 2 when the
\* optional dot is taken and 1 when it is not; the key is one or more name
\* characters and the rest s[q+1..] has no line terminator.  Both
\* quantifiers are greedy: the dot is taken when a match with it exists,
\* and q is the greatest that matches.
DotEnds_star(s, p) ==
  {q \in (p - 1)..Len(s) :
     /\ \A i \in p..q : IsNameChar(s[i])
     /\ \A i \in (q + 1)..Len(s) : ~IsLineTerminator(s[i])}

DotEnds(s, p) ==
  {q \in p..Len(s) :
     /\ \A i \in p..q : IsNameChar(s[i])
     /\ \A i \in (q + 1)..Len(s) : ~IsLineTerminator(s[i])}

\* Variant: the leading dot is never consumed (the "\\.?" left out).
DotStart_never(s) == 1

DotStart(s) ==
  IF Len(s) >= 1 /\ s[1] = "." /\ DotEnds(s, 2) # {} THEN 2 ELSE 1

DOT_NOTATION_REGEX(s) ==
  LET p == DotStart(s)
  IN IF DotEnds(s, p) # {}
     THEN LET q == Max(DotEnds(s, p))
          IN [matched |-> TRUE, key |-> Slice(s, p, q),
              rest |-> Slice(s, q + 1, Len(s))]
     ELSE NoMatch

\* /^\d+$/
NUMERIC_KEY_REGEX(key) == Len(key) >= 1 /\ \A i \in 1..Len(key) : IsDigit(key[i])

(***************************************************************************)
(* Segments.                                                               *)
(***************************************************************************)
Name(text) == [tag |-> "Name", text |-> text, num |-> 0]
Index(num) == [tag |-> "Index", text |-> <<>>, num |-> num]

\* Number(key) for a string of decimal digits.
RECURSIVE Number(_)
Number(key) ==
  IF key = <<>> THEN 0
  ELSE 10 * Number(Slice(key, 1, Len(key) - 1)) + DigitValue(key[Len(key)])

\* Variant: keys are kept as strings, never converted to numbers.
parsedKey_text(key) == Name(key)

\* NUMERIC_KEY_REGEX.test(key) ? Number(key) : key
parsedKey(key) == IF NUMERIC_KEY_REGEX(key) THEN Index(Number(key)) ELSE Name(key)

(***************************************************************************)
(* parsePath and stringToPathArray as functions of their argument.         *)
(* null is the record with ok = FALSE.                                     *)
(***************************************************************************)
null == [ok |-> FALSE, segs |-> <<>>]
Some(segs) == [ok |-> TRUE, segs |-> segs]

\* Variant: a frame that does not check its recursive call for null.
propagate_partial(key, restResult) == Some(<<key>> \o restResult.segs)

\* What a frame of parsePath returns, given what its recursive call returned.
propagate(key, restResult) ==
  IF ~restResult.ok THEN null ELSE Some(<<key>> \o restResult.segs)

RECURSIVE parsePath(_)
parsePath(cur) ==
  IF Len(cur) = 0 THEN Some(<<>>)
  ELSE LET bracketMatch == BRACKET_NOTATION_REGEX(cur)
           dotMatch == DOT_NOTATION_REGEX(cur)
       IN IF bracketMatch.matched
          THEN propagate(parsedKey(bracketMatch.key), parsePath(bracketMatch.rest))
          ELSE IF dotMatch.matched
          THEN propagate(parsedKey(dotMatch.key), parsePath(dotMatch.rest))
          ELSE null

\* Variant: stringToPathArray hands on what parsePath returned.
fallback_unchecked(p, r) == r

\* The value stringToPathArray returns once parsePath has returned r:
\* if (result === null) return [path]; return result;
fallback(p, r) == IF ~r.ok THEN Some(<<Name(p)>>) ELSE r

\* The returned value (null or an array) and, for use where it is an array,
\* its segments.
stringToPathArrayValue(p) ==
  IF Len(p) = 0 THEN Some(<<>>) ELSE fallback(p, parsePath(p))

stringToPathArray(p) == stringToPathArrayValue(p).segs

(***************************************************************************)
(* JavaScript values and objects, as far as setPath reads and writes them. *)
(* A value is a primitive or a reference to the object at an address of    *)
(* the heap.  An object has a class, a prototype (an address, 0 for null), *)
(* own data properties keyed by segments (a number key n and the string    *)
(* key of its decimal text are the same property key; no Name is all       *)
(* digits) and, for an array, a length.                                    *)
(***************************************************************************)
Undefined == [t |-> "undefined", s |-> <<>>, n |-> 0]
Null == [t |-> "null", s |-> <<>>, n |-> 0]
Str(text) == [t |-> "string", s |-> text, n |-> 0]
Num(k) == [t |-> "number", s |-> <<>>, n |-> k]
Function == [t |-> "function", s |-> <<>>, n |-> 0]
Ref(a) == [t |-> "ref", s |-> <<>>, n |-> a]

typeof(v) ==
  CASE v.t = "ref" -> "object"
    [] v.t = "null" -> "object"
    [] OTHER -> v.t

\* A value given to the formData schema, as far as isIterable and the
\* spread [...iterable] look at it: its typeof, whether it is null, the
\* typeof of value[Symbol.iterator] ("absent" when Symbol.iterator is not in
\* the value) and the items its iteration yields.
SourceValue(type, isNull, iterator, items) ==
  [type |-> type, isNull |-> isNull, iterator |-> iterator, items |-> items]

\* No call of formData: the source is undefined.
NoSource == SourceValue("undefined", FALSE, "absent", <<>>)

protoKey == Name(<<"_", "_", "p", "r", "o", "t", "o", "_", "_">>)
constructorKey == Name(<<"c", "o", "n", "s", "t", "r", "u", "c", "t", "o", "r">>)
lengthKey == Name(<<"l", "e", "n", "g", "t", "h">>)

NoProps == [k \in {} |-> Undefined]

\* Object.prototype and Array.prototype.  Of their function-valued members
\* (constructor, toString, hasOwnProperty, push, ...) constructor stands for
\* all; the accessor __proto__ of Object.prototype is handled in
\* HasOwnProperty, GetFrom and Set.
ObjectPrototypeAddr == 1
ArrayPrototypeAddr == 2
RootAddr == 3

ObjectPrototype ==
  [class |-> "Object", proto |-> 0,
   props |-> [k \in {constructorKey} |-> Function], length |-> 0]
ArrayPrototype ==
  [class |-> "Array", proto |-> ObjectPrototypeAddr,
   props |-> [k \in {constructorKey} |-> Function], length |-> 0]

\* The literals {} and [].
EmptyObject ==
  [class |-> "Object", proto |-> ObjectPrototypeAddr, props |-> NoProps, length |-> 0]
EmptyArray ==
  [class |-> "Array", proto |-> ArrayPrototypeAddr, props |-> NoProps, length |-> 0]

\* A File, the one kind of object a form entry's value can be, and the
\* prototype it inherits from (File.prototype, with Blob.prototype behind
\* it; their members name, size, type, slice, ... are no keys of the paths
\* here, constructor stands for them).
FilePrototypeAddr == 4
FileAddr == 5

FilePrototype ==
  [class |-> "Object", proto |-> ObjectPrototypeAddr,
   props |-> [k \in {constructorKey} |-> Function], length |-> 0]
File ==
  [class |-> "File", proto |-> FilePrototypeAddr, props |-> NoProps, length |-> 0]

InitialHeap == <<ObjectPrototype, ArrayPrototype, EmptyObject, FilePrototype, File>>

HasOwnProperty(h, a, key) ==
  \/ key \in DOMAIN h[a].props
  \/ h[a].class = "Array" /\ key = lengthKey
  \/ a = ObjectPrototypeAddr /\ key = protoKey

\* key in object: own or inherited.
RECURSIVE HasProperty(_, _, _)
HasProperty(h, a, key) ==
  \/ HasOwnProperty(h, a, key)
  \/ h[a].proto # 0 /\ HasProperty(h, h[a].proto, key)

\* object[key]: the own or inherited value; the getter of __proto__ answers
\* with the prototype of the receiver.
RECURSIVE GetFrom(_, _, _, _)
GetFrom(h, a, key, receiver) ==
  IF key \in DOMAIN h[a].props THEN h[a].props[key]
  ELSE IF h[a].class = "Array" /\ key = lengthKey THEN Num(h[a].length)
  ELSE IF a = ObjectPrototypeAddr /\ key = protoKey
  THEN (IF h[receiver].proto = 0 THEN Null ELSE Ref(h[receiver].proto))
  ELSE IF h[a].proto = 0 THEN Undefined
  ELSE GetFrom(h, h[a].proto, key, receiver)

Get(h, a, key) == GetFrom(h, a, key, a)

\* The outcome of an operation: the heap it leaves, the error it threw and
\* the segment the error's message names (NoSegment when it names none).
NoSegment == Name(<<>>)
Outcome(h, error) == [heap |-> h, thrown |-> error, at |-> NoSegment]
\* throw new Error(`Cannot navigate through path: expected object at segment
\* "${currentSegment}", got ${typeof nextValue}`)
Conflict(h, currentSegment) ==
  [heap |-> h, thrown |-> "StructuralConflict", at |-> currentSegment]

\* Variant: an index written to an array also fills every lower index that
\* has no element with undefined.
DefineOwn_dense(h, a, key, v) ==
  LET o == h[a]
      fill == IF o.class = "Array" /\ key.tag = "Index"
              THEN {Index(i) : i \in 0..(key.num - 1)} \ DOMAIN o.props
              ELSE {}
      props == [k \in DOMAIN o.props \cup fill \cup {key} |->
                  IF k = key THEN v
                  ELSE IF k \in fill THEN Undefined ELSE o.props[k]]
      length == IF o.class = "Array" /\ key.tag = "Index" /\ key.num + 1 > o.length
                THEN key.num + 1 ELSE o.length
  IN [h EXCEPT ![a] = [o EXCEPT !.props = props, !.length = length]]

\* Create or overwrite an own data property; an index written to an array
\* raises its length.
DefineOwn(h, a, key, v) ==
  LET o == h[a]
      props == [k \in DOMAIN o.props \cup {key} |-> IF k = key THEN v ELSE o.props[k]]
      length == IF o.class = "Array" /\ key.tag = "Index" /\ key.num + 1 > o.length
                THEN key.num + 1 ELSE o.length
  IN [h EXCEPT ![a] = [o EXCEPT !.props = props, !.length = length]]

\* array.length = v: ToNumber(v) must be an array length (null is 0; undefined
\* and a non-numeric string are NaN); the elements from the new length on go.
ArraySetLength(h, a, v) ==
  IF v.t \in {"number", "null"}
  THEN LET n == IF v.t = "null" THEN 0 ELSE v.n
           o == h[a]
           kept == {k \in DOMAIN o.props : k.tag = "Index" => k.num < n}
       IN Outcome([h EXCEPT ![a] = [o EXCEPT !.props = [k \in kept |-> o.props[k]],
                                               !.length = n]], "none")
  ELSE Outcome(h, "RangeError")

RECURSIVE InChain(_, _, _)
InChain(h, a, target) ==
  a # 0 /\ (a = target \/ InChain(h, h[a].proto, target))

\* The setter of __proto__: a value that is neither an object nor null is
\* ignored; Object.prototype keeps its null prototype; a cycle is refused.
SetPrototype(h, a, v) ==
  IF v.t \notin {"ref", "null"} THEN Outcome(h, "none")
  ELSE LET p == IF v.t = "null" THEN 0 ELSE v.n
       IN IF p = h[a].proto THEN Outcome(h, "none")
          ELSE IF a = ObjectPrototypeAddr \/ InChain(h, p, a)
          THEN Outcome(h, "TypeError")
          ELSE Outcome([h EXCEPT ![a].proto = p], "none")

\* object[key] = v in strict code.  Every data property here is writable,
\* so only the length of an array and the inherited accessor __proto__
\* differ from creating or overwriting the own property.
Set(h, a, key, v) ==
  IF h[a].class = "Array" /\ key = lengthKey THEN ArraySetLength(h, a, v)
  ELSE IF key = protoKey /\ key \notin DOMAIN h[a].props
          /\ HasProperty(h, a, key)
  THEN SetPrototype(h, a, v)
  ELSE Outcome(DefineOwn(h, a, key, v), "none")

(***************************************************************************)
(* setPath(object, path, value).                                           *)
(***************************************************************************)
\* Variant: the guard for an empty path left out.
isEmptyPath_never(pathSegments) == FALSE

\* pathSegments.length === 0
isEmptyPath(pathSegments) == Len(pathSegments) = 0

\* Variant: an object is created whatever the next segment.
newContainer_object(nextSegment) == EmptyObject

\* typeof nextSegment === "number" ? [] : {}
newContainer(nextSegment) ==
  IF nextSegment.tag = "Index" THEN EmptyArray ELSE EmptyObject

\* Variant: a container is created where the key holds undefined, not where
\* the key is absent.
createMissing_byValue(h, cur, currentSegment, nextSegment) ==
  IF Get(h, cur, currentSegment) = Undefined
  THEN Set(Append(h, newContainer(nextSegment)), cur, currentSegment,
           Ref(Len(h) + 1)).heap
  ELSE h

\* Variant: a container is also created where the key holds a container of
\* the other kind than the next segment asks for.
createMissing_matchKind(h, cur, currentSegment, nextSegment) ==
  IF \/ ~HasProperty(h, cur, currentSegment)
     \/ /\ Get(h, cur, currentSegment).t = "ref"
        /\ h[Get(h, cur, currentSegment).n].class \in {"Object", "Array"}
        /\ h[Get(h, cur, currentSegment).n].class # newContainer(nextSegment).class
  THEN DefineOwn(Append(h, newContainer(nextSegment)), cur, currentSegment,
                 Ref(Len(h) + 1))
  ELSE h

\* The heap after "if (!(currentSegment in currentObject)) currentObject[
\* currentSegment] = ..." : the new container is allocated at the next free
\* address.
createMissing(h, cur, currentSegment, nextSegment) ==
  IF ~HasProperty(h, cur, currentSegment)
  THEN Set(Append(h, newContainer(nextSegment)), cur, currentSegment,
           Ref(Len(h) + 1)).heap
  ELSE h

\* The loop over the leading segments from index i on, then the final
\* assignment.  segs[Len(segs)] is lastSegment.
RECURSIVE navigate(_, _, _, _, _)
navigate(h, cur, segs, i, v) ==
  IF i = Len(segs) THEN Set(h, cur, segs[i], v)
  ELSE LET h1 == createMissing(h, cur, segs[i], segs[i + 1])
           nextValue == Get(h1, cur, segs[i])
       IN IF typeof(nextValue) # "object" \/ nextValue = Null
          THEN Conflict(h1, segs[i])
          ELSE navigate(h1, nextValue.n, segs, i + 1, v)

(***************************************************************************)
(* The parser as a state machine: one call of stringToPathArray(path),     *)
(* one action per frame of parsePath entered or left.  stack holds the     *)
(* parsedKey of every frame awaiting its recursive call.                   *)
(***************************************************************************)
Init ==
  /\ path \in Strings(MaxLen)
  /\ pc = "start"
  /\ currentPath = <<>>
  /\ stack = <<>>
  /\ ret = Some(<<>>)
  /\ result = Some(<<>>)
  /\ heap = InitialHeap
  /\ before = InitialHeap
  /\ value = Undefined
  /\ thrown = "none"
  /\ thrownAt = NoSegment
  /\ calls = 0
  /\ source = NoSource
  /\ shape = <<>>
  /\ data = <<>>
  /\ map = <<>>
  /\ cursor = 0

\* stringToPathArray: the empty path returns [] without parsing.
StpaEmpty ==
  /\ pc = "start"
  /\ Len(path) = 0
  /\ result' = Some(<<>>)
  /\ pc' = "done"
  /\ UNCHANGED <<path, currentPath, stack, ret>>
  /\ UNCHANGED <<objectVars, formVars>>

\* stringToPathArray: call parsePath(path).
StpaCall ==
  /\ pc = "start"
  /\ Len(path) # 0
  /\ currentPath' = path
  /\ pc' = "parse"
  /\ UNCHANGED <<path, stack, ret, result>>
  /\ UNCHANGED <<objectVars, formVars>>

\* parsePath: base case, the remaining path is empty.
ParseBase ==
  /\ pc = "parse"
  /\ Len(currentPath) = 0
  /\ ret' = Some(<<>>)
  /\ pc' = "return"
  /\ UNCHANGED <<path, currentPath, stack, result>>
  /\ UNCHANGED <<objectVars, formVars>>

\* parsePath: the bracket pattern matches; recurse on the rest.
ParseBracket ==
  /\ pc = "parse"
  /\ Len(currentPath) # 0
  /\ BRACKET_NOTATION_REGEX(currentPath).matched
  /\ stack' = Append(stack, parsedKey(BRACKET_NOTATION_REGEX(currentPath).key))
  /\ currentPath' = BRACKET_NOTATION_REGEX(currentPath).rest
  /\ UNCHANGED <<path, pc, ret, result>>
  /\ UNCHANGED <<objectVars, formVars>>

\* parsePath: the bracket pattern does not match, the dot pattern does.
ParseDot ==
  /\ pc = "parse"
  /\ Len(currentPath) # 0
  /\ ~BRACKET_NOTATION_REGEX(currentPath).matched
  /\ DOT_NOTATION_REGEX(currentPath).matched
  /\ stack' = Append(stack, parsedKey(DOT_NOTATION_REGEX(currentPath).key))
  /\ currentPath' = DOT_NOTATION_REGEX(currentPath).rest
  /\ UNCHANGED <<path, pc, ret, result>>
  /\ UNCHANGED <<objectVars, formVars>>

\* parsePath: neither pattern matches; return null.
ParseNoMatch ==
  /\ pc = "parse"
  /\ Len(currentPath) # 0
  /\ ~BRACKET_NOTATION_REGEX(currentPath).matched
  /\ ~DOT_NOTATION_REGEX(currentPath).matched
  /\ ret' = null
  /\ pc' = "return"
  /\ UNCHANGED <<path, currentPath, stack, result>>
  /\ UNCHANGED <<objectVars, formVars>>

\* parsePath: a frame receives restResult and returns to its caller.
ParseReturn ==
  /\ pc = "return"
  /\ stack # <<>>
  /\ ret' = propagate(stack[Len(stack)], ret)
  /\ stack' = SubSeq(stack, 1, Len(stack) - 1)
  /\ UNCHANGED <<path, pc, currentPath, result>>
  /\ UNCHANGED <<objectVars, formVars>>

\* stringToPathArray: parsePath has returned to it.
StpaFinish ==
  /\ pc = "return"
  /\ stack = <<>>
  /\ result' = fallback(path, ret)
  /\ pc' = "done"
  /\ UNCHANGED <<path, currentPath, stack, ret>>
  /\ UNCHANGED <<objectVars, formVars>>

Next ==
  \/ StpaEmpty
  \/ StpaCall
  \/ ParseBase
  \/ ParseBracket
  \/ ParseDot
  \/ ParseNoMatch
  \/ ParseReturn
  \/ StpaFinish

Spec == Init /\ [][Next]_vars

\* A call, once begun, runs on: the engine takes the next step of the
\* function whenever there is one.
FairSpec == Spec /\ WF_vars(Next)

(***************************************************************************)
(* Calls of setPath on one root object, which starts as {}.                *)
(***************************************************************************)
MaxCalls == 2

charA == <<"a">>
charX == <<"x">>
char0 == <<"0">>
char1 == <<"1">>

\* The keys the paths are made of: a name, an index, and three names that
\* objects or arrays inherit or own without having been given them.
PathKeys == {charA, char0, protoKey.text, constructorKey.text, lengthKey.text}

\* One, two or three keys.  A sequence of two starts with the name or with
\* __proto__, or ends with the name; a sequence of three starts with the
\* name and ends with the name or the index, its middle key is any.  One
\* sequence writes an index above 0.
KeySequences ==
  {<<k>> : k \in PathKeys}
    \cup ({charA, protoKey.text} \X PathKeys) \cup (PathKeys \X {charA})
    \cup ({charA} \X PathKeys \X {charA, char0})
    \cup {<<charA, char1>>}

\* The path text of a key sequence: a digit key in bracket notation, any
\* other key in dot notation.
RECURSIVE PathTextFrom(_, _)
PathTextFrom(keys, i) ==
  IF i > Len(keys) THEN <<>>
  ELSE (IF NUMERIC_KEY_REGEX(keys[i]) THEN <<"[">> \o keys[i] \o <<"]">>
        ELSE IF i = 1 THEN keys[i]
        ELSE <<".">> \o keys[i])
       \o PathTextFrom(keys, i + 1)

\* The paths setPath is called with: the empty path, a path with invalid
\* syntax, and the texts of the key sequences.
SetPathInputs ==
  {<<>>, <<"a", "[">>} \cup {PathTextFrom(keys, 1) : keys \in KeySequences}

SetPathValues == {Str(charX), Null, Undefined, Ref(FileAddr)}

\* The keys of the entries a source yields.  The core keys are paths into
\* one name; the other keys are the empty key, paths through names every
\* object inherits, a name with empty brackets, and the index of a core key
\* in dot notation.
CoreKeys ==
  {PathTextFrom(<<charA>>, 1), PathTextFrom(<<charA, charA>>, 1),
   PathTextFrom(<<charA, char0>>, 1)}
OtherKeys ==
  {<<>>,
   PathTextFrom(<<protoKey.text, charA>>, 1),
   PathTextFrom(<<constructorKey.text, charA>>, 1),
   <<"a", "[", "]">>,
   <<"a", ".", "0">>}
EntryKeys == CoreKeys \cup OtherKeys

\* const pathSegments = stringToPathArray(path), tabulated over the paths
\* setPath is called with.
pathSegmentsOf == [p \in SetPathInputs \cup EntryKeys |-> stringToPathArrayValue(p)]

setPath(h, object, p, v) ==
  LET pathSegments == pathSegmentsOf[p].segs
  IN IF isEmptyPath(pathSegments) THEN Outcome(h, "EmptyPath")
     ELSE IF Len(pathSegments) = 0 THEN Outcome(h, "InvalidPath")
     ELSE navigate(h, object, pathSegments, 1, v)

InitSetPath ==
  /\ path = <<>>
  /\ pc = "start"
  /\ currentPath = <<>>
  /\ stack = <<>>
  /\ ret = Some(<<>>)
  /\ result = Some(<<>>)
  /\ heap = InitialHeap
  /\ before = InitialHeap
  /\ value = Undefined
  /\ thrown = "none"
  /\ thrownAt = NoSegment
  /\ calls = 0
  /\ source = NoSource
  /\ shape = <<>>
  /\ data = <<>>
  /\ map = <<>>
  /\ cursor = 0

\* One call setPath(root, p, v), from its entry to its return or throw.
SetPath(p, v) ==
  /\ calls < MaxCalls
  /\ path' = p
  /\ value' = v
  /\ result' = pathSegmentsOf[p]
  /\ before' = heap
  /\ LET outcome == setPath(heap, RootAddr, p, v)
     IN heap' = outcome.heap /\ thrown' = outcome.thrown /\ thrownAt' = outcome.at
  /\ calls' = calls + 1
  /\ pc' = "done"
  /\ UNCHANGED <<currentPath, stack, ret>>
  /\ UNCHANGED formVars

NextSetPath == \E p \in SetPathInputs, v \in SetPathValues : SetPath(p, v)

SpecSetPath == InitSetPath /\ [][NextSetPath]_vars

(***************************************************************************)
(* formData(shape) applied to one source value.  The pipe runs its items   *)
(* in order and stops at the first validation that fails; an error thrown  *)
(* inside a transformation propagates to the caller.  pc names the item    *)
(* or loop about to run; "done" with thrown = "none" is the point where    *)
(* the result is handed to v.object(shape).                                *)
(***************************************************************************)
MaxEntries == 3
MaxShape == 1

EntryValues == {Str(charX), Ref(FileAddr)}

Entry(key, v) == [pair |-> TRUE, key |-> key, value |-> v]
\* An item that is no [string, unknown] pair, such as a number.
NonEntry == [pair |-> FALSE, key |-> <<>>, value |-> Num(1)]

Entries == {Entry(key, v) : key \in EntryKeys, v \in EntryValues}
CoreEntries == {Entry(key, v) : key \in CoreKeys, v \in EntryValues}

\* Up to MaxEntries entries with core keys, or one entry fewer with any keys.
EntryLists ==
  UNION {[1..n -> CoreEntries] : n \in 0..MaxEntries}
    \cup UNION {[1..n -> Entries] : n \in 0..(MaxEntries - 1)}

\* The sources: null, a string, an object without Symbol.iterator, an
\* object whose Symbol.iterator is no function, an array of numbers, and
\* the sources of entries (FormData, URLSearchParams, arrays of pairs).
Sources ==
  {SourceValue("object", TRUE, "absent", <<>>),
   SourceValue("string", FALSE, "function", <<NonEntry>>),
   SourceValue("object", FALSE, "absent", <<>>),
   SourceValue("object", FALSE, "string", <<>>),
   SourceValue("object", FALSE, "function", <<NonEntry>>)}
    \cup {SourceValue("object", FALSE, "function", items) : items \in EntryLists}

\* The declared keys: names of the shape, one of them a path, one a name
\* every object inherits, one never among the entries.
ShapeKeys ==
  {PathTextFrom(<<charA>>, 1), PathTextFrom(<<charA, charA>>, 1),
   constructorKey.text, lengthKey.text}
Shapes ==
  {keys \in UNION {[1..n -> ShapeKeys] : n \in 0..MaxShape} :
     \A i, j \in 1..Len(keys) : keys[i] = keys[j] => i = j}

\* Variant: every value passes for iterable.
isIterable_always(v) == TRUE

\* (typeof value === "object" || typeof value === "function") &&
\* value !== null && Symbol.iterator in value &&
\* typeof value[Symbol.iterator] === "function"
isIterable(v) ==
  /\ v.type \in {"object", "function"}
  /\ ~v.isNull
  /\ v.iterator # "absent"
  /\ v.iterator = "function"

\* map.has(key), map.get(key)
MapHas(m, key) == \E i \in 1..Len(m) : m[i].key = key
MapGet(m, key) == (CHOOSE i \in 1..Len(m) : m[i].key = key)

\* Variant: a new key goes to the front of the map.
MapSet_front(m, key, list) == <<[key |-> key, list |-> list]>> \o m

\* map.set(key, list) for a key the map has not: a Map keeps its keys in
\* insertion order.
MapSet(m, key, list) == Append(m, [key |-> key, list |-> list])

\* The array literal [value].
ListOf(v) ==
  [class |-> "Array", proto |-> ArrayPrototypeAddr,
   props |-> [k \in {Index(0)} |-> v], length |-> 1]

\* list.push(value)
Push(h, list, v) == DefineOwn(h, list, Index(h[list].length), v)

\* Variant: the list is passed on whatever its length.
collapse_never(h, list) == Ref(list)

\* list.length === 1 ? list[0] : list
collapse(h, list) ==
  IF h[list].length = 1 THEN Get(h, list, Index(0)) ELSE Ref(list)

\* The property key a declared key names (no declared key here is the text
\* of a number).
PropertyKey(key) == Name(key)

InitFormData ==
  /\ path = <<>>
  /\ pc = "formData"
  /\ currentPath = <<>>
  /\ stack = <<>>
  /\ ret = Some(<<>>)
  /\ result = Some(<<>>)
  /\ heap = InitialHeap
  /\ before = InitialHeap
  /\ value = Undefined
  /\ thrown = "none"
  /\ thrownAt = NoSegment
  /\ calls = 0
  /\ source \in Sources
  /\ shape \in Shapes
  /\ data = <<>>
  /\ map = <<>>
  /\ cursor = 0

\* v.custom(isIterable)
CheckIterable ==
  /\ pc = "formData"
  /\ IF isIterable(source)
     THEN pc' = "spread" /\ thrown' = thrown
     ELSE pc' = "done" /\ thrown' = "InputNotIterable"
  /\ UNCHANGED <<path, currentPath, stack, ret, result>>
  /\ UNCHANGED <<heap, before, value, thrownAt, calls>>
  /\ UNCHANGED formVars

\* v.transform((iterable) => [...iterable]); spreading a value whose
\* Symbol.iterator is no function throws a TypeError.
Spread ==
  /\ pc = "spread"
  /\ IF source.iterator = "function"
     THEN data' = source.items /\ pc' = "entries" /\ thrown' = thrown
     ELSE data' = data /\ pc' = "done" /\ thrown' = "TypeError"
  /\ UNCHANGED <<path, currentPath, stack, ret, result>>
  /\ UNCHANGED <<heap, before, value, thrownAt, calls>>
  /\ UNCHANGED <<source, shape, map, cursor>>

\* v.array(v.tuple([v.string(), v.unknown()]))
CheckEntries ==
  /\ pc = "entries"
  /\ IF \A i \in 1..Len(data) : data[i].pair
     THEN pc' = "group" /\ cursor' = 1 /\ thrown' = thrown
     ELSE pc' = "done" /\ cursor' = cursor /\ thrown' = "InvalidEntries"
  /\ UNCHANGED <<path, currentPath, stack, ret, result>>
  /\ UNCHANGED <<heap, before, value, thrownAt, calls>>
  /\ UNCHANGED <<source, shape, data, map>>

\* One turn of "for (const [key, value] of data)".
GroupEntry ==
  /\ pc = "group"
  /\ cursor <= Len(data)
  /\ LET key == data[cursor].key
         v == data[cursor].value
     IN IF MapHas(map, key)
        THEN /\ heap' = Push(heap, map[MapGet(map, key)].list, v)
             /\ map' = map
        ELSE /\ heap' = Append(heap, ListOf(v))
             /\ map' = MapSet(map, key, Len(heap) + 1)
  /\ cursor' = cursor + 1
  /\ UNCHANGED <<path, pc, currentPath, stack, ret, result>>
  /\ UNCHANGED <<before, value, thrown, thrownAt, calls>>
  /\ UNCHANGED <<source, shape, data>>

\* The loop over data has ended; [...map].reduce(..., {}) begins with the
\* object at RootAddr as its accumulator.
GroupEnd ==
  /\ pc = "group"
  /\ cursor > Len(data)
  /\ pc' = "assemble"
  /\ cursor' = 1
  /\ UNCHANGED <<path, currentPath, stack, ret, result>>
  /\ UNCHANGED objectVars
  /\ UNCHANGED <<source, shape, data, map>>

\* Variant: an error of the call is caught and the loop goes on.
CallSetPath_swallow(key, v) ==
  /\ path' = key
  /\ value' = v
  /\ result' = pathSegmentsOf[key]
  /\ before' = heap
  /\ heap' = setPath(heap, RootAddr, key, v).heap
  /\ thrown' = "none"
  /\ thrownAt' = NoSegment
  /\ pc' = pc
  /\ calls' = calls + 1

\* The call setPath(RootAddr, key, v) made by formData, as SetPath makes it;
\* an error it throws ends the pipe.
CallSetPath(key, v) ==
  /\ path' = key
  /\ value' = v
  /\ result' = pathSegmentsOf[key]
  /\ before' = heap
  /\ LET outcome == setPath(heap, RootAddr, key, v)
     IN /\ heap' = outcome.heap
        /\ thrown' = outcome.thrown
        /\ thrownAt' = outcome.at
        /\ pc' = IF outcome.thrown = "none" THEN pc ELSE "done"
  /\ calls' = calls + 1

\* One turn of the reducer: (acc, [key, list]) => setPath(acc, key, value).
AssembleEntry ==
  /\ pc = "assemble"
  /\ cursor <= Len(map)
  /\ CallSetPath(map[cursor].key, collapse(heap, map[cursor].list))
  /\ cursor' = cursor + 1
  /\ UNCHANGED <<currentPath, stack, ret>>
  /\ UNCHANGED <<source, shape, data, map>>

AssembleEnd ==
  /\ pc = "assemble"
  /\ cursor > Len(map)
  /\ pc' = "backfill"
  /\ cursor' = 1
  /\ UNCHANGED <<path, currentPath, stack, ret, result>>
  /\ UNCHANGED objectVars
  /\ UNCHANGED <<source, shape, data, map>>

\* One turn of "for (const key of Object.keys(shape))":
\* if (!(key in result)) setPath(result, key, undefined).
BackfillKey ==
  /\ pc = "backfill"
  /\ cursor <= Len(shape)
  /\ IF ~HasProperty(heap, RootAddr, PropertyKey(shape[cursor]))
     THEN CallSetPath(shape[cursor], Undefined)
     ELSE UNCHANGED <<path, pc, result>> /\ UNCHANGED objectVars
  /\ cursor' = cursor + 1
  /\ UNCHANGED <<currentPath, stack, ret>>
  /\ UNCHANGED <<source, shape, data, map>>

\* return result
BackfillEnd ==
  /\ pc = "backfill"
  /\ cursor > Len(shape)
  /\ pc' = "done"
  /\ UNCHANGED <<path, currentPath, stack, ret, result>>
  /\ UNCHANGED objectVars
  /\ UNCHANGED formVars

NextFormData ==
  \/ CheckIterable
  \/ Spread
  \/ CheckEntries
  \/ GroupEntry
  \/ GroupEnd
  \/ AssembleEntry
  \/ AssembleEnd
  \/ BackfillKey
  \/ BackfillEnd

SpecFormData == InitFormData /\ [][NextFormData]_vars

\* The call has returned / has returned through the fallback branch.
Done == pc = "done"
FellBack == pc = "done" /\ Len(path) # 0 /\ ~ret.ok
Parsed == pc = "done" /\ ret.ok

\* The state machine computes what the recursive definition computes.
MachineAgrees == Done => result = stringToPathArrayValue(path)

(***************************************************************************)
(* Vocabulary of the properties.                                           *)
(***************************************************************************)
Contains(s, sub) ==
  \E i \in 1..(Len(s) - Len(sub) + 1) : Slice(s, i, i + Len(sub) - 1) = sub

Count(s, c, upto) == Cardinality({i \in 1..upto : s[i] = c})

\* Every closing bracket closes an earlier opening one, and none stays open.
Balanced(s) ==
  /\ \A i \in 1..Len(s) : Count(s, "[", i) >= Count(s, "]", i)
  /\ Count(s, "[", Len(s)) = Count(s, "]", Len(s))

Malformed(s) ==
  \/ Contains(s, <<"[", "[">>)
  \/ Contains(s, <<"]", "]">>)
  \/ Contains(s, <<"[", "]">>)
  \/ ~Balanced(s)

NoBrackets(s) == \A i \in 1..Len(s) : s[i] \notin {"[", "]"}

AllDigits(d) == Len(d) >= 1 /\ \A i \in 1..Len(d) : IsDigit(d[i])

\* A key that is a name: one or more characters other than ".", "[", "]",
\* not all of them digits.
IsNameText(n) ==
  /\ Len(n) >= 1
  /\ \A i \in 1..Len(n) : IsNameChar(n[i])
  /\ ~AllDigits(n)

WellFormedSegment(seg) ==
  \/ seg.tag = "Name" /\ Len(seg.text) >= 1 /\ seg.num = 0
  \/ seg.tag = "Index" /\ seg.text = <<>> /\ seg.num \in Nat

(***************************************************************************)
(* Canonical text of a segment sequence: a Name in dot notation (the       *)
(* first one without the dot), an Index in bracket notation, as in         *)
(* "users[0].name".                                                        *)
(***************************************************************************)
DigitChar(k) == <<"0", "1", "2", "3", "4", "5", "6", "7", "8", "9">>[k + 1]

RECURSIVE Digits(_)
Digits(n) ==
  IF n < 10 THEN <<DigitChar(n)>> ELSE Digits(n \div 10) \o <<DigitChar(n % 10)>>

RenderSegment(seg, first) ==
  IF seg.tag = "Index" THEN <<"[">> \o Digits(seg.num) \o <<"]">>
  ELSE IF first THEN seg.text
  ELSE <<".">> \o seg.text

RECURSIVE RenderFrom(_, _)
RenderFrom(segs, i) ==
  IF i > Len(segs) THEN <<>>
  ELSE RenderSegment(segs[i], i = 1) \o RenderFrom(segs, i + 1)

Render(segs) == RenderFrom(segs, 1)

(***************************************************************************)
(* Properties of the parser.                                               *)
(***************************************************************************)

C2_AllOrNothing ==
  Done /\ Len(currentPath) # 0 => result = Some(<<Name(path)>>)

\* The parse failed after at least one segment had been parsed.
C2_Witness ==
  Done /\ Len(currentPath) # 0 /\ Len(currentPath) < Len(path)

\* C3: every string that contains "[[", "]]", "[]" or unbalanced brackets
\* parses to the single segment equal to the original string.
C3_MalformedFallsBack ==
  Done /\ Malformed(path) => result = Some(<<Name(path)>>)

\* C4 as claimed: every non-empty string without "[" and "]" is split and
\* never takes the fallback.
C4_NoBracketsNoFallback ==
  Done /\ Len(path) # 0 /\ NoBrackets(path) => ret.ok

\* The dots of s that separate segments: all but a leading one.
Separators(s) == Cardinality({i \in 2..Len(s) : s[i] = "."})

\* C4 as amended: a non-empty string without "[", "]" and line terminators,
\* that does not end in "." and holds no "..", never takes the fallback and
\* is split at its dots: one segment more than it has separating dots.
C4_WellFormedDotsNoFallback ==
  ( /\ Done
    /\ Len(path) # 0
    /\ NoBrackets(path)
    /\ \A i \in 1..Len(path) : ~IsLineTerminator(path[i])
    /\ path[Len(path)] # "."
    /\ ~Contains(path, <<".", ".">>) )
  => /\ ret.ok
     /\ Len(result.segs) = Separators(path) + 1

\* A dotted two-segment string has been parsed.
C4_Witness ==
  /\ Done
  /\ NoBrackets(path)
  /\ \A i \in 1..Len(path) : ~IsLineTerminator(path[i])
  /\ Len(path) # 0 /\ path[Len(path)] # "."
  /\ ~Contains(path, <<".", ".">>)
  /\ Separators(path) = 1

\* path is n.d (dot = TRUE) or n[d] (dot = FALSE) with the separator at k,
\* n a name and d a digit string.
NameThenDigits(k, dot) ==
  /\ k \in 2..(Len(path) - 1)
  /\ IsNameText(Slice(path, 1, k - 1))
  /\ IF dot
     THEN path[k] = "." /\ AllDigits(Slice(path, k + 1, Len(path)))
     ELSE /\ path[k] = "["
          /\ path[Len(path)] = "]"
          /\ AllDigits(Slice(path, k + 1, Len(path) - 1))

\* C5: numeric classification is syntactic and the same in both notations:
\* a parsed key is an Index exactly when it is all digits, and n.d and n[d]
\* both parse to [Name(n), Index(d)].
C5_NumericClassification ==
  Done =>
    /\ ret.ok => \A i \in 1..Len(result.segs) :
                   result.segs[i].tag = "Name" => ~AllDigits(result.segs[i].text)
    /\ \A k \in 1..Len(path) :
         /\ NameThenDigits(k, TRUE) =>
              LET n == Slice(path, 1, k - 1)
                  d == Slice(path, k + 1, Len(path))
              IN /\ result.segs = <<Name(n), Index(Number(d))>>
                 /\ stringToPathArray(n \o <<"[">> \o d \o <<"]">>) = result.segs
         /\ NameThenDigits(k, FALSE) =>
              LET n == Slice(path, 1, k - 1)
                  d == Slice(path, k + 1, Len(path) - 1)
              IN /\ result.segs = <<Name(n), Index(Number(d))>>
                 /\ stringToPathArray(n \o <<".">> \o d) = result.segs

\* n.d with a two-digit d has been parsed.
C5_Witness == Done /\ NameThenDigits(2, TRUE) /\ Len(path) = 4

\* C6 as claimed: for a string that parses without fallback and starts with
\* a dot-segment (its first segment is not a bracket-segment), prefixing a
\* dot does not change the parse.
C6_LeadingDotStripped ==
  Parsed /\ Len(path) # 0 /\ path[1] # "["
    => stringToPathArray(<<".">> \o path) = result.segs

\* C6 as amended: the same for a string whose first character is none of
\* ".", "[", "]", i.e. whose first dot-segment has no leading dot yet.
C6_LeadingDotStrippedOnce ==
  Parsed /\ Len(path) # 0 /\ IsNameChar(path[1])
    => stringToPathArray(<<".">> \o path) = result.segs

\* A string of two segments starting with a name character has been parsed.
C6_Witness ==
  Parsed /\ Len(path) # 0 /\ IsNameChar(path[1]) /\ Len(result.segs) = 2

PlainNames(segs) ==
  \A i \in 1..Len(segs) :
    segs[i].tag = "Name" => \A j \in 1..Len(segs[i].text) : IsNameChar(segs[i].text[j])

C8_BracketKeyHasNoCloser ==
  pc = "parse" /\ BRACKET_NOTATION_REGEX(currentPath).matched
    => \A i \in 1..Len(BRACKET_NOTATION_REGEX(currentPath).key) :
         BRACKET_NOTATION_REGEX(currentPath).key[i] # "]"

(***************************************************************************)
(* Properties of setPath.  The entries of a container are its own          *)
(* properties; pathSegments is what the call parsed its path to.           *)
(***************************************************************************)
pathSegments == result.segs

\* The container the first i - 1 segments lead to from the root by entries
\* that hold containers, or 0 when there is none.
RECURSIVE ContainerFrom(_, _, _, _, _)
ContainerFrom(h, a, segs, j, i) ==
  IF j = i THEN a
  ELSE IF segs[j] \in DOMAIN h[a].props /\ h[a].props[segs[j]].t = "ref"
  THEN ContainerFrom(h, h[a].props[segs[j]].n, segs, j + 1, i)
  ELSE 0

ContainerAt(h, segs, i) == ContainerFrom(h, RootAddr, segs, 1, i)

\* C9: setPath with a path of zero segments (the empty string, and only it)
\* throws the empty-path error and leaves every object as it was.
C9_EmptyPathThrows ==
  calls > 0 /\ (Len(path) = 0 \/ Len(pathSegments) = 0)
    => /\ Len(path) = 0
       /\ thrown = "EmptyPath"
       /\ heap = before

\* setPath was called with the empty path on a root that has entries.
C9_Witness ==
  /\ calls > 0
  /\ Len(path) = 0
  /\ DOMAIN before[RootAddr].props # {}
  /\ thrown = "EmptyPath"

\* C10: where a segment other than the last finds no entry for its key in
\* the current container, the call creates a container there, and one for
\* every later segment but the last: a Sequence (array) when the following
\* segment is an Index, a Mapping (plain object) otherwise.
C10_CreatesMissingContainers ==
  calls > 0 =>
    \A j \in 1..(Len(pathSegments) - 1) :
      LET c == ContainerAt(before, pathSegments, j)
      IN (c # 0 /\ pathSegments[j] \notin DOMAIN before[c].props) =>
           \A k \in j..(Len(pathSegments) - 1) :
             LET created == ContainerAt(heap, pathSegments, k + 1)
             IN /\ created > Len(before)
                /\ heap[created].class =
                     IF pathSegments[k + 1].tag = "Index" THEN "Array" ELSE "Object"

\* C11: where a segment other than the last finds an entry for its key in
\* the current container, the call descends into the value of that entry.
\* When the value is no object (a string, a number, null, undefined) the
\* call throws the structural-conflict error, which names the key, and
\* changes nothing; when it is an object the entry is not replaced by a
\* container created by the call (it holds what it held, or the value the
\* call wrote when the object is reachable from itself by the path).
C11_DescendsIntoExisting ==
  calls > 0 =>
    \A j \in 1..(Len(pathSegments) - 1) :
      LET c == ContainerAt(before, pathSegments, j)
          key == pathSegments[j]
      IN (c # 0 /\ key \in DOMAIN before[c].props) =>
           LET existing == before[c].props[key]
           IN /\ existing.t # "ref" =>
                   /\ thrown = "StructuralConflict"
                   /\ thrownAt = key
                   /\ heap = before
              /\ existing.t = "ref" =>
                   /\ key \in DOMAIN heap[c].props
                   /\ heap[c].props[key] \in {existing, value}

\* A call met the missing-value sentinel under the key of its first segment
\* and had more segments to go.
C11_Witness ==
  /\ calls > 0
  /\ Len(pathSegments) > 1
  /\ pathSegments[1] \in DOMAIN before[RootAddr].props
  /\ before[RootAddr].props[pathSegments[1]] = Undefined
  /\ thrown = "StructuralConflict"
  /\ thrownAt = pathSegments[1]

\* C12: a File is a leaf: where a segment other than the last finds a File
\* under its key, the call throws the structural-conflict error, the File is
\* as it was and the entry still holds it.
C12_FileIsLeaf ==
  calls > 0 =>
    \A j \in 1..(Len(pathSegments) - 1) :
      LET c == ContainerAt(before, pathSegments, j)
          key == pathSegments[j]
      IN (c # 0 /\ c # FileAddr /\ key \in DOMAIN before[c].props
            /\ before[c].props[key] = Ref(FileAddr)) =>
           /\ thrown = "StructuralConflict"
           /\ heap[FileAddr] = before[FileAddr]
           /\ heap[c].props[key] = Ref(FileAddr)

\* What reading the path from value v on yields: v[segs[i]][segs[i + 1]]...
\* (undefined where the walk meets a value that is no object).
RECURSIVE ReadPath(_, _, _, _)
ReadPath(h, v, segs, i) ==
  IF i > Len(segs) THEN v
  ELSE IF v.t # "ref" THEN Undefined
  ELSE ReadPath(h, Get(h, v.n, segs[i]), segs, i + 1)

\* C13: a call that returns has written its value at the last segment
\* whatever was stored there: reading the path back from the root yields
\* the value.
C13_ReadsBackValue ==
  calls > 0 /\ thrown = "none"
    => ReadPath(heap, Ref(RootAddr), pathSegments, 1) = value

lastSegment == pathSegments[Len(pathSegments)]

\* (a, k) is a location on the path: the entry for segment j of the
\* container the first j - 1 segments lead to.
OnPath(h, a, k) ==
  \E j \in 1..Len(pathSegments) :
    a = ContainerAt(h, pathSegments, j) /\ k = pathSegments[j]

\* C14: a call that returns has changed only the location its path names
\* and the intermediate containers it created: every object that existed
\* keeps its prototype, keeps the value of every entry but the one the last
\* segment names, and gains entries only on the path.
C14_Frame ==
  calls > 0 /\ thrown = "none" =>
    \A a \in 1..Len(before) :
      /\ heap[a].proto = before[a].proto
      /\ \A k \in DOMAIN before[a].props :
           \/ k \in DOMAIN heap[a].props /\ heap[a].props[k] = before[a].props[k]
           \/ a = ContainerAt(heap, pathSegments, Len(pathSegments)) /\ k = lastSegment
      /\ \A k \in DOMAIN heap[a].props \ DOMAIN before[a].props : OnPath(heap, a, k)

\* The entry k of object a holds a container of the given class.
HoldsKind(h, a, k, class) ==
  /\ k \in DOMAIN h[a].props
  /\ h[a].props[k].t = "ref"
  /\ h[h[a].props[k].n].class = class

\* C15 as stated: a location that holds a Mapping keeps holding a Mapping
\* and a location that holds a Sequence keeps holding a Sequence, over every
\* call.
C15_LocationKeepsKind ==
  calls > 0 =>
    \A a \in 1..Len(before) : \A k \in DOMAIN before[a].props :
      \A class \in {"Object", "Array"} :
        HoldsKind(before, a, k, class) => HoldsKind(heap, a, k, class)

\* C15, amended: the descent of a call never changes what container a
\* location holds, whatever the kind of the segment that follows; an entry
\* that holds an object holds the same object after the call unless the
\* call returned and its final assignment wrote that entry (its key is the
\* last segment) or removed it (an index of an array whose length was
\* assigned).  An object never changes its class.
C15_DescentKeepsContainer ==
  calls > 0 =>
    \A a \in 1..Len(before) :
      /\ heap[a].class = before[a].class
      /\ \A k \in DOMAIN before[a].props :
           before[a].props[k].t = "ref" =>
             \/ k \in DOMAIN heap[a].props /\ heap[a].props[k] = before[a].props[k]
             \/ /\ thrown = "none"
                /\ \/ k = lastSegment
                   \/ /\ lastSegment = lengthKey
                      /\ before[a].class = "Array"
                      /\ k.tag = "Index"

\* A call went through a location that holds a Mapping with an Index as
\* the following segment, and the location holds the same Mapping after it.
C15_Witness ==
  /\ calls > 1
  /\ Len(pathSegments) > 1
  /\ pathSegments[2].tag = "Index"
  /\ HoldsKind(before, RootAddr, pathSegments[1], "Object")
  /\ heap[RootAddr].props[pathSegments[1]] = before[RootAddr].props[pathSegments[1]]
  /\ thrown = "none"

\* The indices of the array at address a that have an element.
Elements(h, a) == {k \in DOMAIN h[a].props : k.tag = "Index"}

\* C16: a call that returns and whose last segment is an Index k written to
\* a Sequence sets index k only: the length is at least k + 1, the element
\* at k is the value, every other index has the element it had or, as
\* before, none: an index never written is a hole, not an element that
\* holds undefined.
C16_SparseWrite ==
  calls > 0 /\ thrown = "none" /\ lastSegment.tag = "Index" =>
    LET c == ContainerAt(heap, pathSegments, Len(pathSegments))
        old == IF c <= Len(before) THEN Elements(before, c) ELSE {}
    IN (c # 0 /\ heap[c].class = "Array") =>
         /\ heap[c].length >= lastSegment.num + 1
         /\ heap[c].props[lastSegment] = value
         /\ Elements(heap, c) = old \cup {lastSegment}
         /\ \A k \in old \ {lastSegment} : heap[c].props[k] = before[c].props[k]

\* Index 1 was written to a Sequence that has no element at index 0: the
\* length is 2 and index 0 is a hole.
C16_Witness ==
  /\ calls > 0
  /\ thrown = "none"
  /\ lastSegment = Index(1)
  /\ LET c == ContainerAt(heap, pathSegments, Len(pathSegments))
     IN /\ c # 0
        /\ heap[c].class = "Array"
        /\ heap[c].length = 2
        /\ Index(0) \notin DOMAIN heap[c].props

(***************************************************************************)
(* Properties of formData.                                                 *)
(***************************************************************************)
\* The iteration protocol can be run on the source.
CanBeIterated(v) == ~v.isNull /\ v.iterator = "function"

\* The call has ended by handing its result on / by an error.
Returned == pc = "done" /\ thrown = "none"
Failed == pc = "done" /\ thrown # "none"

\* C17: a source that cannot be iterated ends the call at its first step
\* with the not-iterable error: no entry was read or grouped, setPath was
\* not called, no object was created or changed, nothing is returned.
C17_NotIterableFailsFast ==
  (~CanBeIterated(source) /\ pc # "formData") =>
    /\ Failed
    /\ thrown = "InputNotIterable"
    /\ data = <<>>
    /\ map = <<>>
    /\ calls = 0
    /\ heap = InitialHeap

\* The call was given an object that has no Symbol.iterator and has ended.
C17_Witness ==
  /\ source.type = "object"
  /\ ~source.isNull
  /\ source.iterator = "absent"
  /\ Failed
  /\ thrown = "InputNotIterable"

\* The values of the entries of d with the given key, in the order of d.
RECURSIVE ValuesUpTo(_, _, _)
ValuesUpTo(d, key, n) ==
  IF n = 0 THEN <<>>
  ELSE IF d[n].key = key THEN Append(ValuesUpTo(d, key, n - 1), d[n].value)
  ELSE ValuesUpTo(d, key, n - 1)

ValuesOf(d, key) == ValuesUpTo(d, key, Len(d))

\* The elements of the array at address list, as a sequence.
ElementsOf(h, list) == [i \in 1..h[list].length |-> Get(h, list, Index(i - 1))]

\* What is passed on for a key: its one value itself, or an array of all
\* its values in order.
IsCollapsed(h, v, values) ==
  IF Len(values) = 1 THEN v = values[1]
  ELSE v.t = "ref" /\ h[v.n].class = "Array" /\ ElementsOf(h, v.n) = values

\* C18: when grouping has ended, the map has one list for every key that
\* occurs among the entries and none for any other key, and the list of a
\* key holds the values of its entries, all of them, in their order; the
\* value a turn of the reducer passes to setPath is the one value itself
\* for a key that occurred once and the whole list for a key that occurred
\* more than once.
C18_GroupsAndCollapses ==
  /\ (pc = "assemble" /\ cursor = 1) =>
       /\ \A i, j \in 1..Len(map) : map[i].key = map[j].key => i = j
       /\ {map[i].key : i \in 1..Len(map)} = {data[i].key : i \in 1..Len(data)}
       /\ \A i \in 1..Len(map) :
            ElementsOf(heap, map[i].list) = ValuesOf(data, map[i].key)
  /\ (pc = "assemble" /\ cursor > 1) =>
       /\ path = map[cursor - 1].key
       /\ IsCollapsed(before, value, ValuesOf(data, path))

\* A turn of the reducer passed on the list of a key that occurred twice
\* with different values, after a turn for a key that occurred once.
C18_Witness ==
  /\ pc = "assemble"
  /\ cursor = 3
  /\ Len(ValuesOf(data, map[1].key)) = 1
  /\ Len(ValuesOf(data, path)) = 2
  /\ ValuesOf(data, path)[1] # ValuesOf(data, path)[2]
  /\ value.t = "ref"

\* The distinct keys of the first n entries of d, in the order of their
\* first occurrence.
RECURSIVE KeysUpTo(_, _)
KeysUpTo(d, n) ==
  IF n = 0 THEN <<>>
  ELSE IF \E j \in 1..(n - 1) : d[j].key = d[n].key THEN KeysUpTo(d, n - 1)
  ELSE Append(KeysUpTo(d, n - 1), d[n].key)

KeysOf(d) == KeysUpTo(d, Len(d))

\* An array of the given values.
ArrayOf(values) ==
  [class |-> "Array", proto |-> ArrayPrototypeAddr,
   props |-> [k \in {Index(i - 1) : i \in 1..Len(values)} |-> values[k.num + 1]],
   length |-> Len(values)]

\* The objects as grouping leaves them: the empty accumulator and, after
\* the objects there were, one array of values for every distinct key.
GroupedHeap(d) ==
  InitialHeap \o [i \in 1..Len(KeysOf(d)) |-> ArrayOf(ValuesOf(d, KeysOf(d)[i]))]

\* The value for the i-th distinct key: its one value, or its array.
CollapsedValue(d, i) ==
  IF Len(ValuesOf(d, KeysOf(d)[i])) = 1 THEN ValuesOf(d, KeysOf(d)[i])[1]
  ELSE Ref(Len(InitialHeap) + i)

\* The fold of setPath(acc, key, value) over the distinct keys from the
\* i-th on, on the one accumulator at RootAddr; it ends where a call throws.
RECURSIVE FoldSetPath(_, _, _)
FoldSetPath(h, d, i) ==
  IF i > Len(KeysOf(d)) THEN Outcome(h, "none")
  ELSE LET outcome == setPath(h, RootAddr, KeysOf(d)[i], CollapsedValue(d, i))
       IN IF outcome.thrown # "none" THEN outcome
          ELSE FoldSetPath(outcome.heap, d, i + 1)

\* C19: when assembly has ended, before any backfill, the objects are what
\* the fold of setPath over the distinct keys in the order of their first
\* occurrence, each with its collapsed value, makes of one accumulator that
\* starts as the empty Mapping; assembly made one call per distinct key.
C19_AssemblyIsFold ==
  (pc = "backfill" /\ cursor = 1) =>
    /\ FoldSetPath(GroupedHeap(data), data, 1).thrown = "none"
    /\ heap = FoldSetPath(GroupedHeap(data), data, 1).heap
    /\ calls = Len(KeysOf(data))

\* Assembly has ended for entries whose first key is the path through the
\* name and whose second key is the name itself: the later call overwrote
\* what the earlier one built.
C19_Witness ==
  /\ pc = "backfill"
  /\ cursor = 1
  /\ KeysOf(data) = <<PathTextFrom(<<charA, charA>>, 1), PathTextFrom(<<charA>>, 1)>>
  /\ heap[RootAddr].props[Name(charA)] = CollapsedValue(data, 2)

\* C20: when the call has ended without an error, every declared key is a
\* key of the output Mapping: the output has an entry under it (which holds
\* a value made from the entries, or undefined).
C20_DeclaredKeysPresent ==
  Returned =>
    \A i \in 1..Len(shape) : PropertyKey(shape[i]) \in DOMAIN heap[RootAddr].props

\* The last setPath call was made by backfill and returned: assembly makes
\* one call for every key of the map.
BackfillWrote ==
  /\ pc \in {"backfill", "done"}
  /\ thrown = "none"
  /\ calls > Len(map)

\* C21: a backfill write never replaces a value that came from the entries
\* by undefined: where reading the declared key's path gave a value other
\* than undefined before the write, it gives that value after it.
C21_BackfillKeepsInput ==
  BackfillWrote =>
    \/ ReadPath(before, Ref(RootAddr), pathSegments, 1) = Undefined
    \/ ReadPath(heap, Ref(RootAddr), pathSegments, 1)
         = ReadPath(before, Ref(RootAddr), pathSegments, 1)

\* C22: an error of a setPath call made by assembly or backfill is the
\* error of the whole call, raised at that point: the call has ended with
\* it, the objects are as the failing setPath call left them, no step runs
\* after it and nothing is returned.
C22_ErrorsPropagate ==
  /\ thrown # "none" => pc = "done"
  /\ Failed => ~ENABLED NextFormData
  /\ calls > 0 =>
       LET outcome == setPath(before, RootAddr, path, value)
       IN outcome.thrown # "none" =>
            /\ Failed
            /\ thrown = outcome.thrown
            /\ heap = outcome.heap

\* The second setPath call of assembly threw the empty-path error after the
\* first had written to the accumulator.
C22_Witness ==
  /\ Failed
  /\ thrown = "EmptyPath"
  /\ calls = 2
  /\ DOMAIN heap[RootAddr].props # {}

\* C23: a call changes no object that other calls share: whatever the
\* entries, Object.prototype, Array.prototype and File.prototype are as
\* they were when the call began, so that the output of any other call
\* depends on its own entries and declared keys alone.
C23_SharedObjectsUntouched ==
  \A a \in {ObjectPrototypeAddr, ArrayPrototypeAddr, FilePrototypeAddr} :
    heap[a] = InitialHeap[a]

\* The key of the name with empty brackets.
emptyBracketsKey == <<"a", "[", "]">>

\* C25: entries whose key is a name with empty brackets, repeated, are
\* aggregated under the name without the brackets: when the call has
\* returned for entries that all have the key a[], two or more of them, the
\* output has the key a and it holds the array of their values in order.
C25_EmptyBracketsAggregate ==
  (/\ Returned
   /\ Len(data) >= 2
   /\ \A i \in 1..Len(data) : data[i].key = emptyBracketsKey) =>
    /\ Name(charA) \in DOMAIN heap[RootAddr].props
    /\ IsCollapsed(heap, heap[RootAddr].props[Name(charA)],
                   ValuesOf(data, emptyBracketsKey))

\* C26: when a call without declared keys has returned, no value of an
\* entry is lost: for every distinct key, reading the key's parsed path from
\* the output gives the key's collapsed value.
C26_NoValueLost ==
  (Returned /\ shape = <<>>) =>
    \A i \in 1..Len(KeysOf(data)) :
      IsCollapsed(heap,
                  ReadPath(heap, Ref(RootAddr), pathSegmentsOf[KeysOf(data)[i]].segs, 1),
                  ValuesOf(data, KeysOf(data)[i]))

(***************************************************************************)
(* Further properties of setPath.                                          *)
(***************************************************************************)
\* C27: a call that throws the structural-conflict error leaves every
\* object as it was before the call; no container it created stays.
C27_AtomicOnConflict ==
  calls > 0 /\ thrown = "StructuralConflict" => heap = before

\* The keys of the container at address a are of the kind of the
\* container: Index keys in a Sequence, Name keys in a Mapping.
KeysMatchKind(h, a) ==
  \A k \in DOMAIN h[a].props :
    k.tag = IF h[a].class = "Array" THEN "Index" ELSE "Name"

\* The root and the containers setPath has created.
Containers(h) == {a \in RootAddr..Len(h) : h[a].class \in {"Object", "Array"}}

\* C28 as stated: when the keys of every container matched its kind before
\* a call and the call returns, they match after it.
C28_KeyKindMatches ==
  (/\ calls > 0
   /\ thrown = "none"
   /\ \A a \in Containers(before) : KeysMatchKind(before, a)) =>
    \A a \in Containers(heap) : KeysMatchKind(heap, a)

\* C28, amended: the keys of a container match its kind when the call
\* that created it ends: a Sequence the call created holds only Index keys
\* and a Mapping it created only Name keys.  (A later call, and any call on
\* the root, writes its key into the container that is there, whatever the
\* kind of the key.)
C28_CreatedKindMatchesKey ==
  calls > 0 =>
    \A a \in (Len(before) + 1)..Len(heap) : KeysMatchKind(heap, a)

\* A call created a Sequence and a Mapping inside it, each holding the key
\* that followed.
C28_Witness ==
  /\ calls > 0
  /\ thrown = "none"
  /\ Len(heap) = Len(before) + 2
  /\ heap[Len(before) + 1].class = "Array"
  /\ DOMAIN heap[Len(before) + 1].props = {Index(0)}
  /\ heap[Len(before) + 2].class = "Object"
  /\ DOMAIN heap[Len(before) + 2].props = {Name(charA)}

\* Segment sequence s is a prefix of segment sequence t.
IsPrefix(s, t) ==
  Len(s) <= Len(t) /\ \A i \in 1..Len(s) : s[i] = t[i]

\* The structure under the object at address a, whatever the addresses of
\* the containers setPath created: its class, length and prototype, and
\* under every own key the value, or the structure of the created container.
RECURSIVE Structure(_, _)
Structure(h, a) ==
  [class  |-> h[a].class,
   length |-> h[a].length,
   proto  |-> h[a].proto,
   props  |-> [k \in DOMAIN h[a].props |->
                 LET v == h[a].props[k]
                 IN IF v.t = "ref" /\ v.n > Len(InitialHeap)
                    THEN [t |-> "container", s |-> Structure(h, v.n)]
                    ELSE v]]

\* The structure of everything that can be reached: the root and the
\* objects that are there before the first call.
Structures(h) == [a \in 1..Len(InitialHeap) |-> Structure(h, a)]

\* setPath(root, p, v) and then, when it returned, setPath(root, q, w).
Both(h, p, v, q, w) ==
  LET first == setPath(h, RootAddr, p, v)
  IN IF first.thrown # "none" THEN first
     ELSE setPath(first.heap, RootAddr, q, w)

\* C29 as stated: after a first call (path, value) on the empty root, every
\* second call (q, w) whose segments are no prefix of the first call's and
\* have not them as a prefix gives, in either order, two returns or a
\* throw alike and, on two returns, the same structure.
C29_UnrelatedWritesCommute ==
  calls = 1 /\ Len(pathSegments) > 0 =>
    \A q \in SetPathInputs, w \in SetPathValues :
      LET segs == pathSegmentsOf[q].segs
          thisOrder == Both(before, path, value, q, w)
          otherOrder == Both(before, q, w, path, value)
      IN (/\ Len(segs) > 0
          /\ ~IsPrefix(segs, pathSegments)
          /\ ~IsPrefix(pathSegments, segs)) =>
           /\ (thisOrder.thrown = "none") = (otherOrder.thrown = "none")
           /\ thisOrder.thrown = "none" =>
                Structures(thisOrder.heap) = Structures(otherOrder.heap)

(***************************************************************************)
(* Further properties of the parser.                                       *)
(***************************************************************************)
\* A frame of parsePath was entered through a match of either pattern.
Matched == pc = "parse" /\ pc' = "parse" /\ Len(stack') = Len(stack) + 1

\* C24: every match of the bracket or the dot pattern leaves a remaining
\* text that is shorter by at least one character; the frames entered and
\* the characters left never exceed the length of the input; every call
\* returns.
C24_Terminates ==
  /\ [][Matched => Len(currentPath') < Len(currentPath)]_vars
  /\ [](pc \in {"parse", "return"} => Len(stack) + Len(currentPath) <= Len(path))
  /\ <>(pc = "done")

\* Two matches have consumed an input of the greatest length and the base
\* case has returned.
C24_Witness ==
  /\ pc = "return"
  /\ Len(path) = MaxLen
  /\ Len(stack) = 2
  /\ Len(currentPath) = 0
  /\ ret.ok

\* C30: at every parse position at most one of the bracket pattern and the
\* dot pattern matches the remaining text, and so the order of the two
\* tests decides nothing: wherever the dot pattern matches, the step parsePath
\* takes is the dot step, with the dot pattern's key and rest.
C30_AtMostOnePattern ==
  /\ [](pc = "parse" =>
         ~(/\ BRACKET_NOTATION_REGEX(currentPath).matched
           /\ DOT_NOTATION_REGEX(currentPath).matched))
  /\ [][(/\ pc = "parse"
          /\ Len(currentPath) # 0
          /\ DOT_NOTATION_REGEX(currentPath).matched) =>
          /\ stack' = Append(stack, parsedKey(DOT_NOTATION_REGEX(currentPath).key))
          /\ currentPath' = DOT_NOTATION_REGEX(currentPath).rest]_vars

\* A position reached by a bracket match where the dot pattern matches.
C30_Witness ==
  /\ pc = "parse"
  /\ Len(stack) = 1
  /\ path[1] = "["
  /\ DOT_NOTATION_REGEX(currentPath).matched

====
